---- MODULE Spec2Model ----
(***************************************************************************)
(* Replacement Tracker: the item collection and the handlers that mutate   *)
(* it (src/src/App.tsx), and the dashboard variant with the category       *)
(* filter (src/unnamed/part_000, lines 760-1074).                          *)
(*                                                                         *)
(* Strings are modelled by their shape:                                    *)
(*   - a name is a sequence of characters;                                 *)
(*   - an ISO timestamp "yyyy-mm-ddThh:mm:ss.sssZ" is <<date, time>>, the  *)
(*     day number and the time of day in clock ticks;                      *)
(*   - a date-only string "yyyy-mm-dd" is <<date>>, and "" is <<>>.        *)
(* The clock counts ticks; one day is TicksPerDay ticks.                   *)
(***************************************************************************)
EXTENDS Integers, Sequences, FiniteSets, TLC

VARIABLES
    variant,            \* which build is running: "app" or "filter"
    now,                \* the clock: what Date.now() / new Date() returns
    items,              \* useLocalStorage<Item[]>
    name,               \* add-form state (App)
    interval,
    category,
    editingId,          \* rename context (App)
    editName,
    calendarId,         \* date-editor context (App)
    calendarLastDate,
    calendarNextDate,
    deleteId,           \* delete modal (App)
    newItem,            \* add-form state (filter variant)
    filterCategory,     \* filter variant
    sortBy,             \* filter variant
    displayed,          \* the list as last rendered (<<>> before a render)
    op,                 \* history: the handler that ran last, and its argument
    events              \* history: number of handler invocations so far

vars == <<variant, now, items, name, interval, category, editingId, editName,
          calendarId, calendarLastDate, calendarNextDate, deleteId,
          newItem, filterCategory, sortBy, displayed, op, events>>

appVars == <<name, interval, category, editingId, editName,
             calendarId, calendarLastDate, calendarNextDate, deleteId>>

filterVars == <<newItem, filterCategory, sortBy>>

\* what the handlers of neither variant touch
fixedVars == <<variant, now, displayed>>

----------------------------------------------------------------------------
(* Bounds *)

MaxEvents == 6          \* handler invocations in one session of the App
MaxFilterEvents == 4    \* handler invocations in one session of the filter variant
MaxNow == 2             \* the clock runs from 0 to MaxNow ticks
TicksPerDay == 2        \* clock resolution: ticks in (1000 * 60 * 60 * 24) ms

----------------------------------------------------------------------------
(* Program constants *)

null == -1

categories == <<"Hygiene", "Expiration", "Performance", "None">>

DefaultInterval == 30

----------------------------------------------------------------------------
(* Inputs a user types or picks *)

NameInputs == { <<>>, <<" ">>, <<"a", " ">>, <<"b">> }

IntervalInputs == {0, 1}

CategoryInputs == {categories[1], categories[4]}

DateInputs == { <<>>, <<0>>, <<1>>, <<2>> }

----------------------------------------------------------------------------
(* String and date helpers *)

IsSpace(c) == c = " "

RECURSIVE TrimStart(_)
TrimStart(s) ==
    IF s = <<>> THEN <<>>
    ELSE IF IsSpace(Head(s)) THEN TrimStart(Tail(s)) ELSE s

RECURSIVE TrimEnd(_)
TrimEnd(s) ==
    IF s = <<>> THEN <<>>
    ELSE IF IsSpace(s[Len(s)]) THEN TrimEnd(SubSeq(s, 1, Len(s) - 1)) ELSE s

\* String.prototype.trim
Trim(s) == TrimEnd(TrimStart(s))

\* Date.prototype.toISOString of the instant t
ToISOString(t) == << t \div TicksPerDay, t % TicksPerDay >>

\* new Date(s).getTime(); "NaN" for an invalid date
ParseDate(s) ==
    IF Len(s) = 2 THEN s[1] * TicksPerDay + s[2]
    ELSE IF Len(s) = 1 THEN s[1] * TicksPerDay
    ELSE "NaN"

\* s.slice(0, 10) of a date string
SliceDate(s) == IF Len(s) >= 1 THEN << s[1] >> ELSE <<>>

\* a fault: n added to the time value, not to the day of the month
AddDaysToTime(t, n) == t + n

\* d.setDate(d.getDate() + n) on the instant t
AddDays(t, n) == t + n * TicksPerDay

\* a fault: the elapsed days truncated toward zero, not floored
calculateDaysLeftTruncated(lastReplaced, ivl) ==
    LET last == ParseDate(lastReplaced)
        diff == IF now >= last THEN (now - last) \div TicksPerDay
                ELSE 0 - ((last - now) \div TicksPerDay)
    IN  ivl - diff

\* diff = Math.floor((now - last) / (1000 * 60 * 60 * 24))
calculateDaysLeft(lastReplaced, ivl) ==
    LET last == ParseDate(lastReplaced)
        diff == (now - last) \div TicksPerDay
    IN  ivl - diff

\* the date shown: last + interval days (its locale formatting is left out)
calculateNextDate(lastReplaced, ivl) ==
    << AddDays(ParseDate(lastReplaced), ivl) \div TicksPerDay >>

----------------------------------------------------------------------------
(* Collection helpers *)

Ids(s) == { s[i].id : i \in 1..Len(s) }

HasItem(s, id) == \E i \in 1..Len(s) : s[i].id = id

\* Array.prototype.find: the first item with that id
FindItem(s, id) ==
    s[CHOOSE i \in 1..Len(s) :
        s[i].id = id /\ \A j \in 1..(i - 1) : s[j].id # id]

----------------------------------------------------------------------------
(* Display order *)

DaysLeftOf(item) == calculateDaysLeft(item.lastReplaced, item.replacementInterval)

\* a fault: the comparator with its operands exchanged
CompareDaysLeftReversed(a, b) == DaysLeftOf(b) - DaysLeftOf(a)

\* the comparator of sortedItems: (a, b) => aLeft - bLeft
CompareDaysLeft(a, b) == DaysLeftOf(a) - DaysLeftOf(b)

\* a fault: an unstable sort, which puts x before the elements it ties with
RECURSIVE InsertSortedBeforeEqual(_, _)
InsertSortedBeforeEqual(x, s) ==
    IF s = <<>> THEN <<x>>
    ELSE IF DaysLeftOf(x) - DaysLeftOf(Head(s)) <= 0 THEN <<x>> \o s
         ELSE <<Head(s)>> \o InsertSortedBeforeEqual(x, Tail(s))

\* x goes before the first element it compares less than
RECURSIVE InsertSorted(_, _)
InsertSorted(x, s) ==
    IF s = <<>> THEN <<x>>
    ELSE IF CompareDaysLeft(x, Head(s)) < 0 THEN <<x>> \o s
         ELSE <<Head(s)>> \o InsertSorted(x, Tail(s))

\* Array.prototype.sort, which is stable (ECMAScript 2019)
RECURSIVE SortItems(_)
SortItems(s) ==
    IF s = <<>> THEN <<>>
    ELSE InsertSorted(s[Len(s)], SortItems(SubSeq(s, 1, Len(s) - 1)))

sortedItems == SortItems(items)

----------------------------------------------------------------------------
(* The filter variant's data *)

\* day 0 of the clock is 2025-05-01; the default items' dates are day numbers
defaultItems ==
    << [ id |-> 1, name |-> <<"Water", " ", "Filter">>,
         replacementInterval |-> 90, lastReplaced |-> << -30 >>,    \* 2025-04-01
         category |-> "Home" ],
       [ id |-> 2, name |-> <<"HVAC", " ", "Filter">>,
         replacementInterval |-> 180, lastReplaced |-> << -47 >>,   \* 2025-03-15
         category |-> "Home" ],
       [ id |-> 3, name |-> <<"Toothbrush">>,
         replacementInterval |-> 90, lastReplaced |-> << -70 >>,    \* 2025-02-20
         category |-> "Personal" ],
       [ id |-> 4, name |-> <<"Contact", " ", "Lenses">>,
         replacementInterval |-> 30, lastReplaced |-> << -6 >>,     \* 2025-04-25
         category |-> "Personal" ],
       [ id |-> 5, name |-> <<"Car", " ", "Oil", " ", "Change">>,
         replacementInterval |-> 120, lastReplaced |-> << -111 >>,  \* 2025-01-10
         category |-> "Auto" ] >>

\* new Date().toISOString().split("T")[0]
Today == SliceDate(ToISOString(now))

\* the add form as mounted, and as reset after an Add
emptyNewItem ==
    [ name                |-> <<>>,
      replacementInterval |-> 90,
      lastReplaced        |-> Today,
      category            |-> "Home" ]

\* what a user of the filter variant types or picks in its add form
FilterNameInputs == { <<" ">>, <<"a", " ">> }

FilterIntervalInputs == {1}

FilterDateInputs == { <<>>, <<1>> }

FilterCategoryInputs == {"Tech"}

----------------------------------------------------------------------------
(* Initial state *)

\* the history before the first handler runs
NoOp == [ name |-> "init", id |-> null, at |-> 0, again |-> FALSE,
          known |-> FALSE, threw |-> FALSE ]

Init ==
    /\ variant \in {"app", "filter"}
    /\ now = 0
    /\ items = IF variant = "app" THEN <<>> ELSE defaultItems
    /\ name = <<>>
    /\ interval = DefaultInterval
    /\ category = categories[1]
    /\ editingId = null
    /\ editName = <<>>
    /\ calendarId = null
    /\ calendarLastDate = <<>>
    /\ calendarNextDate = <<>>
    /\ deleteId = null
    /\ newItem = emptyNewItem
    /\ filterCategory = "All"
    /\ sortBy = "daysLeft"
    /\ displayed = <<>>
    /\ op = NoOp
    /\ events = 0

\* one more handler invocation, recorded in the history: which handler, its
\* id argument, the clock reading, whether it repeats the invocation before it
\* (same handler, same id, same clock reading), whether the collection had
\* an item with that id when it was called, and whether the handler was left
\* by an exception (t)
EventThrows(n, id, t) ==
    /\ events < (IF variant = "app" THEN MaxEvents ELSE MaxFilterEvents)
    /\ events' = events + 1
    /\ op' = [ name  |-> n,
               id    |-> id,
               at    |-> now,
               again |-> (op.name = n /\ op.id = id /\ op.at = now),
               known |-> HasItem(items, id),
               threw |-> t ]

\* an invocation that returns normally
Event(n, id) == EventThrows(n, id, FALSE)

----------------------------------------------------------------------------
(* The clock *)

Tick ==
    /\ now < MaxNow
    /\ now' = now + 1
    /\ UNCHANGED <<variant, displayed, items, appVars, filterVars, op, events>>

----------------------------------------------------------------------------
(* App: the add form *)

\* nothing else can be operated while the rename input has the focus: a
\* mousedown outside it, or its blur, runs handleEditCancel first
Idle == variant = "app" /\ editingId = null

SetName(v) ==
    /\ Idle
    /\ Event("setName", null)
    /\ name' = v
    /\ UNCHANGED <<fixedVars, items, interval, category, editingId, editName,
                   calendarId, calendarLastDate, calendarNextDate, deleteId,
                   filterVars>>

SetInterval(v) ==
    /\ Idle
    /\ Event("setInterval", null)
    /\ interval' = v
    /\ UNCHANGED <<fixedVars, items, name, category, editingId, editName,
                   calendarId, calendarLastDate, calendarNextDate, deleteId,
                   filterVars>>

SetCategory(v) ==
    /\ Idle
    /\ Event("setCategory", null)
    /\ category' = v
    /\ UNCHANGED <<fixedVars, items, name, interval, editingId, editName,
                   calendarId, calendarLastDate, calendarNextDate, deleteId,
                   filterVars>>

\* a fault: the interval input without min = 1
FormValidNameOnly == name # <<>>

\* the browser's validation of the form, which precedes onSubmit:
\* the name is required, the interval is required and has min = 1
FormValid == name # <<>> /\ interval >= 1

\* a fault: the check without trim
AddRejectsEmptyOnly(n) == n = <<>>

\* if (!name.trim()) return
AddRejects(n) == Trim(n) = <<>>

\* a fault: the name stored as typed
AddedItemUntrimmed ==
    [ id                  |-> now,
      name                |-> name,
      replacementInterval |-> interval,
      lastReplaced        |-> ToISOString(now),
      category            |-> category ]

\* the item handleAdd appends
AddedItem ==
    [ id                  |-> now,
      name                |-> Trim(name),
      replacementInterval |-> interval,
      lastReplaced        |-> ToISOString(now),
      category            |-> category ]

handleAdd ==
    /\ Event("handleAdd", null)
    /\ IF AddRejects(name)
       THEN UNCHANGED <<items, name, interval, category>>
       ELSE /\ items' = Append(items, AddedItem)
            /\ name' = <<>>
            /\ interval' = DefaultInterval
            /\ category' = categories[1]
    /\ UNCHANGED <<fixedVars, editingId, editName, calendarId,
                   calendarLastDate, calendarNextDate, deleteId, filterVars>>

\* pressing Add: an invalid form is not submitted, and onSubmit does not run
SubmitForm ==
    /\ Idle
    /\ IF FormValid
       THEN handleAdd
       ELSE /\ Event("submitBlocked", null)
            /\ UNCHANGED <<fixedVars, items, appVars, filterVars>>

----------------------------------------------------------------------------
(* App: replace now *)

\* a fault: the item rebuilt without its category
ReplacedItemDefaultCategory(item) ==
    [item EXCEPT !.lastReplaced = ToISOString(now), !.category = categories[1]]

\* a fault: the due date moved on by one interval instead of restarted now
ReplacedItemAdvance(item) ==
    [item EXCEPT !.lastReplaced =
        ToISOString(AddDays(ParseDate(item.lastReplaced), item.replacementInterval))]

\* { ...item, lastReplaced: new Date().toISOString() }
ReplacedItem(item) == [item EXCEPT !.lastReplaced = ToISOString(now)]

handleReplace(id) ==
    /\ Event("handleReplace", id)
    /\ items' = [ i \in 1..Len(items) |->
                    IF items[i].id = id THEN ReplacedItem(items[i]) ELSE items[i] ]
    /\ UNCHANGED <<fixedVars, appVars, filterVars>>

ClickReplace ==
    /\ Idle
    /\ \E i \in 1..Len(items) : handleReplace(items[i].id)

----------------------------------------------------------------------------
(* App: delete, behind the confirmation modal *)

\* a fault: removal by index, splice(findIndex(...), 1), which removes the
\* last item when no item has the id
RemoveItemSplice(s, id) ==
    IF HasItem(s, id) THEN SelectSeq(s, LAMBDA item : item.id # id)
    ELSE SubSeq(s, 1, Len(s) - 1)

\* items.filter((item) => item.id !== id)
RemoveItem(s, id) == SelectSeq(s, LAMBDA item : item.id # id)

\* a fault: the x button of an item removing it at once, with no modal
RequestDeleteRemoves ==
    /\ Idle
    /\ \E i \in 1..Len(items) :
        /\ Event("requestDelete", items[i].id)
        /\ items' = RemoveItem(items, items[i].id)
    /\ UNCHANGED <<fixedVars, appVars, filterVars>>

\* the x button of an item: setDeleteId(item.id)
RequestDelete ==
    /\ Idle
    /\ \E i \in 1..Len(items) :
        /\ Event("requestDelete", items[i].id)
        /\ deleteId' = items[i].id
    /\ UNCHANGED <<fixedVars, items, name, interval, category, editingId,
                   editName, calendarId, calendarLastDate, calendarNextDate,
                   filterVars>>

\* the modal's Cancel button: setDeleteId(null)
CancelDelete ==
    /\ Idle
    /\ deleteId # null
    /\ Event("cancelDelete", deleteId)
    /\ deleteId' = null
    /\ UNCHANGED <<fixedVars, items, name, interval, category, editingId,
                   editName, calendarId, calendarLastDate, calendarNextDate,
                   filterVars>>

handleDelete(id) ==
    /\ Event("handleDelete", id)
    /\ items' = RemoveItem(items, id)
    /\ deleteId' = null
    /\ UNCHANGED <<fixedVars, name, interval, category, editingId,
                   editName, calendarId, calendarLastDate, calendarNextDate,
                   filterVars>>

\* the modal's x button: handleDelete(deleteId)
ConfirmDelete ==
    /\ Idle
    /\ deleteId # null
    /\ handleDelete(deleteId)

----------------------------------------------------------------------------
(* App: rename *)

handleEditClick(id, currentName) ==
    /\ Event("handleEditClick", id)
    /\ editingId' = id
    /\ editName' = currentName
    /\ UNCHANGED <<fixedVars, items, name, interval, category,
                   calendarId, calendarLastDate, calendarNextDate, deleteId,
                   filterVars>>

ClickRename ==
    /\ Idle
    /\ \E i \in 1..Len(items) : handleEditClick(items[i].id, items[i].name)

\* the rename input is rendered in the card of the item being renamed
RenameInputShown == variant = "app" /\ editingId # null /\ HasItem(items, editingId)

handleEditChange(v) ==
    /\ RenameInputShown
    /\ Event("handleEditChange", editingId)
    /\ editName' = v
    /\ UNCHANGED <<fixedVars, items, name, interval, category, editingId,
                   calendarId, calendarLastDate, calendarNextDate, deleteId,
                   filterVars>>

\* a fault: a rename that also restarts the item
RenamedItemRestarts(item) ==
    [item EXCEPT !.name = editName, !.lastReplaced = ToISOString(now)]

\* { ...item, name: editName }
RenamedItem(item) == [item EXCEPT !.name = editName]

\* a fault: the check without trim
EditSaveRejectsEmptyOnly(n) == n = <<>>

\* if (editName.trim() === "") return
EditSaveRejects(n) == Trim(n) = <<>>

handleEditSave(id) ==
    /\ Event("handleEditSave", id)
    /\ IF EditSaveRejects(editName)
       THEN UNCHANGED <<items, editingId, editName>>
       ELSE /\ items' = [ i \in 1..Len(items) |->
                            IF items[i].id = id THEN RenamedItem(items[i])
                            ELSE items[i] ]
            /\ editingId' = null
            /\ editName' = <<>>
    /\ UNCHANGED <<fixedVars, name, interval, category,
                   calendarId, calendarLastDate, calendarNextDate, deleteId,
                   filterVars>>

\* Enter in the rename input: handleEditSave(item.id)
PressEnterInRename ==
    /\ RenameInputShown
    /\ handleEditSave(editingId)

\* a press of the Save button next to the rename input. Its mousedown is
\* outside the input: the document listener (and the input's blur) runs
\* handleEditCancel, and the App is rendered again before the click. The
\* button is rendered only while editingId === item.id, so the click finds
\* its onClick, handleEditSave(item.id), only if the rename is still open.
PressSaveButton ==
    /\ RenameInputShown
    /\ Event("pressSaveButton", editingId)
    /\ LET afterMouseDown == [ editingId |-> null, editName |-> <<>> ]
           buttonMounted == afterMouseDown.editingId = editingId
       IN  IF buttonMounted /\ ~EditSaveRejects(afterMouseDown.editName)
           THEN /\ items' = [ i \in 1..Len(items) |->
                                IF items[i].id = editingId
                                THEN [items[i] EXCEPT
                                        !.name = afterMouseDown.editName]
                                ELSE items[i] ]
                /\ editingId' = null
                /\ editName' = <<>>
           ELSE /\ items' = items
                /\ editingId' = afterMouseDown.editingId
                /\ editName' = afterMouseDown.editName
    /\ UNCHANGED <<fixedVars, name, interval, category,
                   calendarId, calendarLastDate, calendarNextDate, deleteId,
                   filterVars>>

\* a fault: leaving the rename input commits the pending name
handleEditCancelCommits ==
    /\ RenameInputShown
    /\ Event("handleEditCancel", editingId)
    /\ items' = [ i \in 1..Len(items) |->
                    IF items[i].id = editingId THEN RenamedItem(items[i])
                    ELSE items[i] ]
    /\ editingId' = null
    /\ editName' = <<>>
    /\ UNCHANGED <<fixedVars, name, interval, category,
                   calendarId, calendarLastDate, calendarNextDate, deleteId,
                   filterVars>>

\* blur of the rename input, or a mousedown outside it
handleEditCancel ==
    /\ RenameInputShown
    /\ Event("handleEditCancel", editingId)
    /\ editingId' = null
    /\ editName' = <<>>
    /\ UNCHANGED <<fixedVars, items, name, interval, category,
                   calendarId, calendarLastDate, calendarNextDate, deleteId,
                   filterVars>>

----------------------------------------------------------------------------
(* App: the date editor *)

\* new Date(s) is a valid date
ValidDate(s) == Len(s) >= 1

\* the date-only string of last + n days: setDate, toISOString().slice(0, 10)
ShiftedDate(s, n) == SliceDate(ToISOString(AddDays(ParseDate(s), n)))

handleCalendarClick(id, lastReplaced, ivl) ==
    /\ Event("handleCalendarClick", id)
    /\ calendarId' = id
    /\ calendarLastDate' = SliceDate(lastReplaced)
    /\ calendarNextDate' = ShiftedDate(lastReplaced, ivl)
    /\ UNCHANGED <<fixedVars, items, name, interval, category, editingId,
                   editName, deleteId, filterVars>>

ClickCalendar ==
    /\ Idle
    /\ \E i \in 1..Len(items) :
        handleCalendarClick(items[i].id, items[i].lastReplaced,
                            items[i].replacementInterval)

\* the editor is rendered in the card of the item it was opened for
CalendarShown == Idle /\ calendarId # null /\ HasItem(items, calendarId)

\* the last-date input has max = today: the dates its picker offers, or ""
\* when it is cleared
LastDateOffered(v) == IF v = <<>> THEN TRUE ELSE v[1] <= Today[1]

\* the next-date input has min = calendarLastDate (no bound when that is "")
NextDateOffered(v) ==
    IF v = <<>> \/ calendarLastDate = <<>> THEN TRUE
    ELSE v[1] >= calendarLastDate[1]

\* toISOString throws a RangeError on an invalid date: the state set before
\* the throw is kept, the rest of the handler does not run
handleCalendarLastChange(v) ==
    /\ CalendarShown
    /\ LastDateOffered(v)
    /\ EventThrows("handleCalendarLastChange", calendarId, ~ValidDate(v))
    /\ calendarLastDate' = v
    /\ calendarNextDate' =
         IF ValidDate(v)
         THEN ShiftedDate(v, FindItem(items, calendarId).replacementInterval)
         ELSE calendarNextDate
    /\ UNCHANGED <<fixedVars, items, name, interval, category, editingId,
                   editName, calendarId, deleteId, filterVars>>

\* a fault: the next-date edit that leaves the pending last date alone
handleCalendarNextChangeKeepsLast(v) ==
    /\ CalendarShown
    /\ NextDateOffered(v)
    /\ EventThrows("handleCalendarNextChange", calendarId, FALSE)
    /\ calendarNextDate' = v
    /\ UNCHANGED <<fixedVars, items, name, interval, category, editingId,
                   editName, calendarId, calendarLastDate, deleteId,
                   filterVars>>

handleCalendarNextChange(v) ==
    /\ CalendarShown
    /\ NextDateOffered(v)
    /\ EventThrows("handleCalendarNextChange", calendarId, ~ValidDate(v))
    /\ calendarNextDate' = v
    /\ calendarLastDate' =
         IF ValidDate(v)
         THEN ShiftedDate(v, 0 - FindItem(items, calendarId).replacementInterval)
         ELSE calendarLastDate
    /\ UNCHANGED <<fixedVars, items, name, interval, category, editingId,
                   editName, calendarId, deleteId, filterVars>>

\* new Date(calendarLastDate).toISOString()
SavedLastReplaced == ToISOString(ParseDate(calendarLastDate))

\* a fault: the date converted before the map, so that an unparseable
\* pending date throws even when no item has the id
handleCalendarSaveEager(id) ==
    /\ EventThrows("handleCalendarSave", id, ~ValidDate(calendarLastDate))
    /\ IF ~ValidDate(calendarLastDate)
       THEN UNCHANGED <<items, calendarId, calendarLastDate, calendarNextDate>>
       ELSE /\ items' = [ i \in 1..Len(items) |->
                            IF items[i].id = id
                            THEN [items[i] EXCEPT !.lastReplaced = SavedLastReplaced]
                            ELSE items[i] ]
            /\ calendarId' = null
            /\ calendarLastDate' = <<>>
            /\ calendarNextDate' = <<>>
    /\ UNCHANGED <<fixedVars, name, interval, category, editingId,
                   editName, deleteId, filterVars>>

handleCalendarSave(id) ==
    /\ EventThrows("handleCalendarSave", id,
                   HasItem(items, id) /\ ~ValidDate(calendarLastDate))
    /\ IF HasItem(items, id) /\ ~ValidDate(calendarLastDate)
       THEN \* the RangeError leaves the handler before any state is set
            UNCHANGED <<items, calendarId, calendarLastDate, calendarNextDate>>
       ELSE /\ items' = [ i \in 1..Len(items) |->
                            IF items[i].id = id
                            THEN [items[i] EXCEPT !.lastReplaced = SavedLastReplaced]
                            ELSE items[i] ]
            /\ calendarId' = null
            /\ calendarLastDate' = <<>>
            /\ calendarNextDate' = <<>>
    /\ UNCHANGED <<fixedVars, name, interval, category, editingId,
                   editName, deleteId, filterVars>>

ClickCalendarSave ==
    /\ CalendarShown
    /\ handleCalendarSave(calendarId)

\* a fault: a cancel that closes the editor and leaves the pending fields
handleCalendarCancelKeepsFields ==
    /\ CalendarShown
    /\ Event("handleCalendarCancel", calendarId)
    /\ calendarId' = null
    /\ UNCHANGED <<fixedVars, items, name, interval, category, editingId,
                   editName, calendarLastDate, calendarNextDate, deleteId,
                   filterVars>>

\* the editor's Cancel button
handleCalendarCancel ==
    /\ CalendarShown
    /\ Event("handleCalendarCancel", calendarId)
    /\ calendarId' = null
    /\ calendarLastDate' = <<>>
    /\ calendarNextDate' = <<>>
    /\ UNCHANGED <<fixedVars, items, name, interval, category, editingId,
                   editName, deleteId, filterVars>>

----------------------------------------------------------------------------
(* The App's next-state relation *)

NextApp ==
    \/ \E v \in NameInputs : SetName(v)
    \/ \E v \in IntervalInputs : SetInterval(v)
    \/ \E v \in CategoryInputs : SetCategory(v)
    \/ SubmitForm
    \/ ClickReplace
    \/ RequestDelete
    \/ CancelDelete
    \/ ConfirmDelete
    \/ ClickRename
    \/ \E v \in NameInputs : handleEditChange(v)
    \/ PressEnterInRename
    \/ handleEditCancel
    \/ ClickCalendar
    \/ \E v \in DateInputs : handleCalendarLastChange(v)
    \/ \E v \in DateInputs : handleCalendarNextChange(v)
    \/ ClickCalendarSave
    \/ handleCalendarCancel

----------------------------------------------------------------------------
(* The filter variant (src/unnamed/part_000, from line 760) *)

IsFilter == variant = "filter"

SetNewItemName(v) ==
    /\ IsFilter
    /\ Event("setNewItemName", null)
    /\ newItem' = [newItem EXCEPT !.name = v]
    /\ UNCHANGED <<fixedVars, items, appVars, filterCategory, sortBy>>

SetNewItemInterval(v) ==
    /\ IsFilter
    /\ Event("setNewItemInterval", null)
    /\ newItem' = [newItem EXCEPT !.replacementInterval = v]
    /\ UNCHANGED <<fixedVars, items, appVars, filterCategory, sortBy>>

SetNewItemDate(v) ==
    /\ IsFilter
    /\ Event("setNewItemDate", null)
    /\ newItem' = [newItem EXCEPT !.lastReplaced = v]
    /\ UNCHANGED <<fixedVars, items, appVars, filterCategory, sortBy>>

SetNewItemCategory(v) ==
    /\ IsFilter
    /\ Event("setNewItemCategory", null)
    /\ newItem' = [newItem EXCEPT !.category = v]
    /\ UNCHANGED <<fixedVars, items, appVars, filterCategory, sortBy>>

\* { id: items.length + 1, ...newItem }
CounterAddedItem ==
    [ id                  |-> Len(items) + 1,
      name                |-> newItem.name,
      replacementInterval |-> newItem.replacementInterval,
      lastReplaced        |-> newItem.lastReplaced,
      category            |-> newItem.category ]

handleAddItem ==
    /\ IsFilter
    /\ Event("handleAddItem", null)
    /\ IF Trim(newItem.name) = <<>>
       THEN UNCHANGED <<items, newItem>>
       ELSE /\ items' = Append(items, CounterAddedItem)
            /\ newItem' = emptyNewItem
    /\ UNCHANGED <<fixedVars, appVars, filterCategory, sortBy>>

\* a fault: the filter without the pass-through of "All"
PassesFilterCategoryOnly(item) == item.category = filterCategory

\* the cards rendered: the items that pass the category filter
PassesFilter(item) == filterCategory = "All" \/ item.category = filterCategory

filteredItems == SelectSeq(items, PassesFilter)

\* Math.ceil(x / (1000 * 60 * 60 * 24))
CeilDays(x) == 0 - ((0 - x) \div TicksPerDay)

\* calculateDaysLeft of the filter variant: the whole days, rounded up, from
\* now to lastReplaced + interval days; NaN for an unparseable lastReplaced
filterCalculateDaysLeft(lastReplaced, ivl) ==
    IF ValidDate(lastReplaced)
    THEN CeilDays(AddDays(ParseDate(lastReplaced), ivl) - now)
    ELSE "NaN"

\* the clock changes between two dates, in ticks (the resolution of the
\* model's clock), that the zone of the browser can make: the local clock
\* set forward, unchanged, or set back
ClockChanges == { 0 - 1, 0, 1 }

\* setDate(getDate() + n) moves a Date by n days of the local calendar: n
\* days of 24 hours and the time c the local clock is set back in between
AddLocalDays(t, n, c) == AddDays(t, n) + c

\* calculateDaysLeft of the filter variant in a zone whose clock is set back
\* by c between lastReplaced and the next date; filterCalculateDaysLeft is
\* its value where the clock does not change
filterCalculateDaysLeftIn(c, lastReplaced, ivl) ==
    IF ValidDate(lastReplaced)
    THEN CeilDays(AddLocalDays(ParseDate(lastReplaced), ivl, c) - now)
    ELSE "NaN"

\* the position of a string of this model in the order of localeCompare:
\* names by their first word, and the categories
LocaleRank(w) ==
    CASE w = "a"          -> 1
      [] w = "Auto"       -> 2
      [] w = "Car"        -> 3
      [] w = "Contact"    -> 4
      [] w = "Home"       -> 5
      [] w = "HVAC"       -> 6
      [] w = "Personal"   -> 7
      [] w = "Tech"       -> 8
      [] w = "Toothbrush" -> 9
      [] w = "Water"      -> 10
      [] OTHER            -> 0

\* the comparator of the filter variant's sortedItems; sort takes a NaN
\* result for +0
FilterCompare(a, b) ==
    IF sortBy = "daysLeft"
    THEN IF ValidDate(a.lastReplaced) /\ ValidDate(b.lastReplaced)
         THEN filterCalculateDaysLeft(a.lastReplaced, a.replacementInterval)
                - filterCalculateDaysLeft(b.lastReplaced, b.replacementInterval)
         ELSE 0
    ELSE IF sortBy = "name"
         THEN LocaleRank(Head(a.name)) - LocaleRank(Head(b.name))
         ELSE IF sortBy = "category"
              THEN LocaleRank(a.category) - LocaleRank(b.category)
              ELSE 0

RECURSIVE FilterInsertSorted(_, _)
FilterInsertSorted(x, s) ==
    IF s = <<>> THEN <<x>>
    ELSE IF FilterCompare(x, Head(s)) < 0 THEN <<x>> \o s
         ELSE <<Head(s)>> \o FilterInsertSorted(x, Tail(s))

RECURSIVE FilterSortItems(_)
FilterSortItems(s) ==
    IF s = <<>> THEN <<>>
    ELSE FilterInsertSorted(s[Len(s)], FilterSortItems(SubSeq(s, 1, Len(s) - 1)))

\* [...filteredItems].sort(...): the cards of the filter variant, in order.
\* With an unparseable lastReplaced in the list the comparator is not
\* consistent and the order is left to the implementation; the list is a
\* permutation of filteredItems in any case.
filterSortedItems == FilterSortItems(filteredItems)

filterHandleReplace(id) ==
    /\ Event("filterHandleReplace", id)
    /\ items' = [ i \in 1..Len(items) |->
                    IF items[i].id = id
                    THEN [items[i] EXCEPT !.lastReplaced = Today]
                    ELSE items[i] ]
    /\ UNCHANGED <<fixedVars, appVars, filterVars>>

FilterClickReplace ==
    /\ IsFilter
    /\ \E i \in 1..Len(filteredItems) : filterHandleReplace(filteredItems[i].id)

filterHandleDelete(id) ==
    /\ Event("filterHandleDelete", id)
    /\ items' = SelectSeq(items, LAMBDA item : item.id # id)
    /\ UNCHANGED <<fixedVars, appVars, filterVars>>

FilterClickDelete ==
    /\ IsFilter
    /\ \E i \in 1..Len(filteredItems) : filterHandleDelete(filteredItems[i].id)

\* the options of the category select: "All" and the items' categories
filterOptions == {"All"} \cup { items[i].category : i \in 1..Len(items) }

SetFilterCategory(v) ==
    /\ IsFilter
    /\ v \in filterOptions
    /\ Event("setFilterCategory", null)
    /\ filterCategory' = v
    /\ UNCHANGED <<fixedVars, items, appVars, newItem, sortBy>>

sortOptions == {"daysLeft", "name", "category"}

SetSortBy(v) ==
    /\ IsFilter
    /\ Event("setSortBy", null)
    /\ sortBy' = v
    /\ UNCHANGED <<fixedVars, items, appVars, newItem, filterCategory>>

NextFilter ==
    \/ \E v \in FilterNameInputs : SetNewItemName(v)
    \/ \E v \in FilterIntervalInputs : SetNewItemInterval(v)
    \/ \E v \in FilterDateInputs : SetNewItemDate(v)
    \/ \E v \in FilterCategoryInputs : SetNewItemCategory(v)
    \/ handleAddItem
    \/ FilterClickReplace
    \/ FilterClickDelete
    \/ \E v \in filterOptions : SetFilterCategory(v)
    \/ \E v \in sortOptions : SetSortBy(v)

----------------------------------------------------------------------------
(* Specification: either variant, operated through its user interface *)

Next == Tick \/ NextApp \/ NextFilter

Spec == Init /\ [][Next]_vars

----------------------------------------------------------------------------
(* Specification: the App's handlers, also called with an id no item has *)

\* the ids a caller may hold: clock readings
IdInputs == 0..MaxNow

StaleCall ==
    /\ variant = "app"
    /\ \E id \in IdInputs :
        /\ ~HasItem(items, id)
        /\ \/ handleReplace(id)
           \/ handleEditSave(id)
           \/ handleCalendarSave(id)
           \/ handleDelete(id)

InitApp == Init /\ variant = "app"

NextHandlers == Tick \/ NextApp \/ StaleCall

SpecHandlers == InitApp /\ [][NextHandlers]_vars

----------------------------------------------------------------------------
(* Specification: either variant, and the App's handlers called while the *)
(* collection is empty                                                     *)

StartupCall ==
    /\ variant = "app"
    /\ items = <<>>
    /\ \E id \in IdInputs :
        \/ handleReplace(id)
        \/ handleEditSave(id)
        \/ handleCalendarSave(id)
        \/ handleDelete(id)

NextStartup == Next \/ StartupCall

SpecStartup == Init /\ [][NextStartup]_vars

----------------------------------------------------------------------------
(* Specification: one render of a collection the App can hold *)

MaxSortLen == 3         \* items in a rendered collection

SortIntervals == {1, 2}

\* lastReplaced values: from one day before the clock starts up to MaxNow
SortLasts == { ToISOString(t) : t \in (0 - TicksPerDay)..MaxNow }

SortItem(i, last, ivl) ==
    [ id                  |-> i,
      name                |-> <<"a">>,
      replacementInterval |-> ivl,
      lastReplaced        |-> last,
      category            |-> categories[1] ]

InitSort ==
    /\ variant = "app"
    /\ now \in 0..MaxNow
    /\ \E n \in 0..MaxSortLen :
         \E f \in [1..n -> SortLasts \X SortIntervals] :
            items = [ i \in 1..n |-> SortItem(i, f[i][1], f[i][2]) ]
    /\ name = <<>>
    /\ interval = DefaultInterval
    /\ category = categories[1]
    /\ editingId = null
    /\ editName = <<>>
    /\ calendarId = null
    /\ calendarLastDate = <<>>
    /\ calendarNextDate = <<>>
    /\ deleteId = null
    /\ newItem = emptyNewItem
    /\ filterCategory = "All"
    /\ sortBy = "daysLeft"
    /\ displayed = <<>>
    /\ op = NoOp
    /\ events = 0

\* a fault: the collection sorted in place, items.sort(...)
RenderNowInPlace ==
    /\ variant = "app"
    /\ Event("render", null)
    /\ displayed' = sortedItems
    /\ items' = sortedItems
    /\ UNCHANGED <<variant, now, appVars, filterVars>>

\* a render: the cards are drawn from sortedItems, a sorted copy of items
RenderNow ==
    /\ variant = "app"
    /\ Event("render", null)
    /\ displayed' = sortedItems
    /\ UNCHANGED <<variant, now, items, appVars, filterVars>>

\* the first render
Render == events = 0 /\ RenderNow

SpecSort == InitSort /\ [][Render]_vars

----------------------------------------------------------------------------
(* Specification: the date editor opened on a collection the App can hold *)

\* the first click on a Calendar button
OpenEditor == events = 0 /\ ClickCalendar

SpecDates == InitSort /\ [][OpenEditor]_vars

----------------------------------------------------------------------------
(* Specification: the App operated through its user interface, and rendered *)

NextStore == Tick \/ NextApp \/ RenderNow \/ PressSaveButton

SpecStore == InitApp /\ [][NextStore]_vars

----------------------------------------------------------------------------
(* Vocabulary of the properties *)

\* this step is an invocation of handler n
Ran(n) == events' = events + 1 /\ op'.name = n

\* empty, or white space only
IsBlank(s) == \A i \in 1..Len(s) : s[i] = " "

Occurrences(s, x) == Cardinality({ i \in 1..Len(s) : s[i] = x })

\* s and t hold the same items, each as often
IsPermutation(s, t) ==
    /\ Len(s) = Len(t)
    /\ \A i \in 1..Len(s) : Occurrences(s, s[i]) = Occurrences(t, s[i])

\* this step takes an item out of the collection
Removal == Len(items') < Len(items) \/ ~(Ids(items) \subseteq Ids(items'))

\* this step is a press of Add in the App
SubmitStep == Ran("handleAdd") \/ Ran("submitBlocked")

----------------------------------------------------------------------------
(* C1 - C10 *)

\* C1: in the App, delete is two-phase. Requesting a delete (the x button of
\* an item) only records the id in deleteId; Cancel clears deleteId; neither
\* changes the collection. deleteId is set by a request only. A step that
\* takes an item out of the collection is handleDelete called with the
\* pending deleteId, and every item with another id stays.
C1_DeleteTwoPhase ==
    [][ variant = "app" =>
          /\ (Ran("requestDelete") => (items' = items /\ deleteId' = op'.id))
          /\ (Ran("cancelDelete") => (items' = items /\ deleteId' = null))
          /\ ((deleteId' # deleteId /\ deleteId' # null) => Ran("requestDelete"))
          /\ (Removal =>
                /\ Ran("handleDelete")
                /\ deleteId # null
                /\ op'.id = deleteId
                /\ \A i \in 1..Len(items) :
                     items[i].id # deleteId =>
                        Occurrences(items', items[i]) = Occurrences(items, items[i]))
      ]_vars

\* a confirmed delete has removed the requested item and left another
C1_Witness ==
    /\ variant = "app"
    /\ op.name = "handleDelete"
    /\ op.known
    /\ ~HasItem(items, op.id)
    /\ Len(items) >= 1

\* C2: no two items of the collection share an id.
C2_IdsUnique ==
    \A i, j \in 1..Len(items) : i # j => items[i].id # items[j].id

\* C3: in the App, pressing Add with an empty or white-space-only name
\* changes neither the collection nor the form fields.
C3_AddRejectsBlank ==
    [][ (variant = "app" /\ SubmitStep /\ IsBlank(name)) =>
          UNCHANGED <<items, name, interval, category>> ]_vars

\* Add was pressed on a white-space-only name with a non-default interval
C3_Witness ==
    /\ variant = "app"
    /\ op.name = "handleAdd"
    /\ name # <<>>
    /\ IsBlank(name)
    /\ interval # DefaultInterval

\* C4: in the App, pressing Add with an interval below 1 leaves the
\* collection unchanged, and every item's replacementInterval is at least 1.
C4_IntervalAtLeastOne ==
    /\ [](variant = "app" =>
            \A i \in 1..Len(items) : items[i].replacementInterval >= 1)
    /\ [][ (variant = "app" /\ SubmitStep /\ interval < 1) => items' = items ]_vars

\* Add was pressed on a good name with interval 0, next to an existing item
C4_Witness ==
    /\ variant = "app"
    /\ op.name = "submitBlocked"
    /\ ~IsBlank(name)
    /\ interval < 1
    /\ Len(items) >= 1

\* the add form's fields, in either variant
FormName == IF variant = "app" THEN name ELSE newItem.name

FormInterval == IF variant = "app" THEN interval ELSE newItem.replacementInterval

FormCategory == IF variant = "app" THEN category ELSE newItem.category

AddStep == Ran("handleAdd") \/ Ran("handleAddItem")

\* C5, as claimed: an Add with a non-blank name appends one item with the
\* trimmed name, the form's interval and category, and lastReplaced the
\* current time (in the filter variant, today's date); the items before it
\* are unchanged.
C5_AddAppends ==
    [][ (AddStep /\ ~IsBlank(FormName)) =>
          /\ Len(items') = Len(items) + 1
          /\ SubSeq(items', 1, Len(items)) = items
          /\ items'[Len(items')].name = Trim(FormName)
          /\ items'[Len(items')].replacementInterval = FormInterval
          /\ items'[Len(items')].category = FormCategory
          /\ items'[Len(items')].lastReplaced =
                (IF variant = "app" THEN ToISOString(now) ELSE Today)
      ]_vars

\* C5, amended: an Add with a non-blank name appends one item with the form's
\* interval and category; the items before it are unchanged. In the App its
\* name is the trimmed name and its lastReplaced the current time; in the
\* filter variant its name is the name as typed and its lastReplaced the
\* form's date field.
C5_AddAppendsAmended ==
    [][ (AddStep /\ ~IsBlank(FormName)) =>
          /\ Len(items') = Len(items) + 1
          /\ SubSeq(items', 1, Len(items)) = items
          /\ items'[Len(items')].replacementInterval = FormInterval
          /\ items'[Len(items')].category = FormCategory
          /\ items'[Len(items')].name =
                (IF variant = "app" THEN Trim(name) ELSE newItem.name)
          /\ items'[Len(items')].lastReplaced =
                (IF variant = "app" THEN ToISOString(now) ELSE newItem.lastReplaced)
      ]_vars

\* a second item was added from the name "a " and the interval 1
C5_Witness ==
    /\ variant = "app"
    /\ op.name = "handleAdd"
    /\ Len(items) = 2
    /\ items[2].name = <<"a">>
    /\ items[2].replacementInterval = 1
    /\ items[2].lastReplaced = ToISOString(now)

\* C6: in the App, Replace-now on an id sets lastReplaced of the items with
\* that id to the current time and changes nothing else of the collection.
C6_ReplaceFrame ==
    [][ (variant = "app" /\ Ran("handleReplace")) =>
          /\ Len(items') = Len(items)
          /\ \A i \in 1..Len(items) :
               items'[i] =
                 IF items[i].id = op'.id
                 THEN [items[i] EXCEPT !.lastReplaced = ToISOString(now)]
                 ELSE items[i]
      ]_vars

\* one of two items was replaced, later than both were added
C6_Witness ==
    /\ variant = "app"
    /\ op.name = "handleReplace"
    /\ Len(items) = 2
    /\ \E i, j \in 1..2 :
         /\ items[i].id = op.id
         /\ items[i].lastReplaced = ToISOString(now)
         /\ items[j].id # op.id
         /\ items[j].lastReplaced # ToISOString(now)
         /\ items[i].id < now

\* C7: in the App, a Replace-now that repeats the invocation before it (same
\* id, same clock reading) leaves the collection as the first one left it.
C7_ReplaceIdempotent ==
    [][ (variant = "app" /\ Ran("handleReplace") /\ op'.again) =>
          items' = items ]_vars

\* Replace-now ran twice in a row on an item added earlier
C7_Witness ==
    /\ variant = "app"
    /\ op.name = "handleReplace"
    /\ op.again
    /\ \E i \in 1..Len(items) :
         /\ items[i].id = op.id
         /\ items[i].id < now
         /\ items[i].lastReplaced = ToISOString(now)

\* C8: handleReplace, handleEditSave, handleCalendarSave and handleDelete
\* called with an id that no item has leave the collection unchanged.
C8_UnknownIdNoOp ==
    [][ ( /\ variant = "app"
          /\ \/ Ran("handleReplace")
             \/ Ran("handleEditSave")
             \/ Ran("handleCalendarSave")
             \/ Ran("handleDelete")
          /\ ~HasItem(items, op'.id) ) =>
          items' = items ]_vars

\* handleDelete ran with an id no item had, on a collection of two items
C8_Witness ==
    /\ variant = "app"
    /\ op.name = "handleDelete"
    /\ ~op.known
    /\ Len(items) = 2

\* C9: the rendered list holds the items of the collection, in ascending
\* order of daysLeft.
C9_DisplaySorted ==
    op.name = "render" =>
        /\ IsPermutation(displayed, items)
        /\ \A i \in 1..(Len(displayed) - 1) :
             DaysLeftOf(displayed[i]) <= DaysLeftOf(displayed[i + 1])

\* three items were rendered in another order than stored, from an overdue
\* one to one that is not yet due
C9_Witness ==
    /\ op.name = "render"
    /\ Len(displayed) = 3
    /\ displayed # items
    /\ DaysLeftOf(displayed[1]) < 0
    /\ DaysLeftOf(displayed[3]) > 0

\* the items of s with k days left, in the order of s
WithDaysLeft(s, k) == SelectSeq(s, LAMBDA item : DaysLeftOf(item) = k)

\* C10: the rendered order is stable: the items with the same daysLeft are
\* rendered in the order the collection stores them in.
C10_DisplayStable ==
    op.name = "render" =>
        \A i \in 1..Len(items) :
            WithDaysLeft(displayed, DaysLeftOf(items[i]))
                = WithDaysLeft(items, DaysLeftOf(items[i]))

\* two items tie and a third, stored after them, is rendered before them
C10_Witness ==
    /\ op.name = "render"
    /\ Len(items) = 3
    /\ DaysLeftOf(items[1]) = DaysLeftOf(items[2])
    /\ items[1].lastReplaced # items[2].lastReplaced
    /\ DaysLeftOf(items[3]) < DaysLeftOf(items[1])
    /\ displayed = <<items[3], items[1], items[2]>>

----------------------------------------------------------------------------
(* C11 - C20 *)

\* the ids of a collection, in its stored order
IdSeq(s) == [ i \in 1..Len(s) |-> s[i].id ]

\* C11: the stored order is insertion order. An Add keeps the collection as
\* a prefix and appends at most one item; Replace-now, Rename-save and the
\* date editor's save keep every position (the same ids in the same order);
\* a Delete leaves the other items, unchanged and in their order; a render,
\* and every other step, leaves the stored collection as it is.
C11_StoredOrder ==
    [][ /\ Ran("handleAdd") =>
            /\ Len(items') \in {Len(items), Len(items) + 1}
            /\ SubSeq(items', 1, Len(items)) = items
        /\ (Ran("handleReplace") \/ Ran("handleEditSave")
                \/ Ran("handleCalendarSave")) =>
            IdSeq(items') = IdSeq(items)
        /\ Ran("handleDelete") =>
            items' = SelectSeq(items, LAMBDA item : item.id # op'.id)
        /\ ~(Ran("handleAdd") \/ Ran("handleReplace") \/ Ran("handleEditSave")
                \/ Ran("handleCalendarSave") \/ Ran("handleDelete")) =>
            items' = items
      ]_vars

\* a render drew two items in the reverse of their stored order
C11_Witness ==
    /\ op.name = "render"
    /\ Len(items) = 2
    /\ displayed = <<items[2], items[1]>>
    /\ displayed # items

\* C12: a Rename-save with an empty or white-space-only edited name is
\* rejected: the collection, editingId and editName stay as they were.
C12_RenameRejectsBlank ==
    [][ (Ran("handleEditSave") /\ IsBlank(editName)) =>
            /\ items' = items
            /\ editingId' = editingId
            /\ editName' = editName ]_vars

\* Enter was pressed on a white-space-only edited name, and the rename input
\* of the item is still open with it
C12_Witness ==
    /\ op.name = "handleEditSave"
    /\ op.known
    /\ editingId = op.id
    /\ editName = <<" ">>
    /\ \E i \in 1..Len(items) : items[i].id = editingId /\ items[i].name = <<"b">>

\* C13: cancelling a rename (blur of the input, a mousedown outside it)
\* leaves the collection unchanged, whatever the pending name is, and closes
\* the rename context: editingId = null and editName = "".
C13_RenameCancel ==
    [][ Ran("handleEditCancel") =>
            /\ items' = items
            /\ editingId' = null
            /\ editName' = <<>> ]_vars

\* a rename was cancelled and the item still has the name it was added with
C13_Witness ==
    /\ op.name = "handleEditCancel"
    /\ op.known
    /\ editingId = null
    /\ editName = <<>>
    /\ \E i \in 1..Len(items) : items[i].id = op.id /\ items[i].name = <<"a">>

\* C14: a Rename-save with a non-blank edited name changes only the name of
\* the items with the given id, to the edited name; their other fields and
\* every other item are unchanged. And no step of either variant changes the
\* id of an item: a step keeps the ids position by position, or keeps the
\* collection as a prefix (an Add), or takes the items of one id out and
\* keeps the others as they are (a Delete).
C14_RenameFrame ==
    [][ /\ (Ran("handleEditSave") /\ ~IsBlank(editName)) =>
            items' = [ i \in 1..Len(items) |->
                        IF items[i].id = op'.id
                        THEN [items[i] EXCEPT !.name = editName]
                        ELSE items[i] ]
        /\ \/ IdSeq(items') = IdSeq(items)
           \/ Len(items') > Len(items) /\ SubSeq(items', 1, Len(items)) = items
           \/ \E id \in Ids(items) :
                items' = SelectSeq(items, LAMBDA item : item.id # id)
      ]_vars

\* an item added as "b" at the start was renamed later: it has the edited
\* name as typed, and the id, interval, category and lastReplaced it had
C14_Witness ==
    /\ op.name = "handleEditSave"
    /\ op.known
    /\ op.at > 0
    /\ editingId = null
    /\ items = << [ id                  |-> 0,
                    name                |-> <<"a", " ">>,
                    replacementInterval |-> DefaultInterval,
                    lastReplaced        |-> ToISOString(0),
                    category            |-> categories[1] ] >>

\* C15: cancelling the date editor leaves the collection unchanged, whatever
\* the pending fields hold, and closes the edit context: calendarId = null
\* and both pending fields are "".
C15_CalendarCancel ==
    [][ Ran("handleCalendarCancel") =>
            /\ items' = items
            /\ calendarId' = null
            /\ calendarLastDate' = <<>>
            /\ calendarNextDate' = <<>> ]_vars

\* the date editor of an item was cancelled at a later clock reading than the
\* item was added at; the item has the lastReplaced it was added with
C15_Witness ==
    /\ op.name = "handleCalendarCancel"
    /\ op.known
    /\ op.at > 0
    /\ calendarId = null
    /\ calendarLastDate = <<>>
    /\ calendarNextDate = <<>>
    /\ \E i \in 1..Len(items) :
        items[i].id = op.id /\ items[i].lastReplaced = ToISOString(op.id)

\* C16: saving the date editor for an item of the collection commits both
\* pending values: the items with that id get the pending last date as
\* lastReplaced, their next date (lastReplaced + replacementInterval days) is
\* the pending next date, their other fields and every other item are
\* unchanged, and the edit context is closed.
C16_SaveCommitsBoth ==
    [][ (Ran("handleCalendarSave") /\ HasItem(items, op'.id)) =>
            /\ calendarId' = null
            /\ calendarLastDate' = <<>>
            /\ calendarNextDate' = <<>>
            /\ ValidDate(calendarLastDate)
            /\ Len(items') = Len(items)
            /\ \A i \in 1..Len(items) :
                IF items[i].id = op'.id
                THEN /\ items'[i] =
                          [items[i] EXCEPT !.lastReplaced = items'[i].lastReplaced]
                     /\ ParseDate(items'[i].lastReplaced)
                          = ParseDate(calendarLastDate)
                     /\ calculateNextDate(items'[i].lastReplaced,
                                          items'[i].replacementInterval)
                          = calendarNextDate
                ELSE items'[i] = items[i] ]_vars

\* whole days from the date a to the date b
DaysBetween(a, b) == (ParseDate(b) - ParseDate(a)) \div TicksPerDay

\* this step opens the date editor or edits one of its fields
CalendarEditStep ==
    \/ Ran("handleCalendarClick")
    \/ Ran("handleCalendarLastChange")
    \/ Ran("handleCalendarNextChange")

\* the pending fields are dates, and an item the editor is open for has
\* their distance in days as its replacementInterval
PendingBound(s, id, last, next) ==
    /\ ValidDate(last)
    /\ ValidDate(next)
    /\ \E i \in 1..Len(s) :
        s[i].id = id /\ DaysBetween(last, next) = s[i].replacementInterval

C18_NextEditRecomputesInterval ==
    [][ /\ (Ran("handleCalendarNextChange") /\ ValidDate(calendarNextDate')) =>
            calendarLastDate' = calendarLastDate
        /\ (Ran("handleCalendarSave") /\ op.name = "handleCalendarNextChange"
                /\ ValidDate(calendarLastDate) /\ ValidDate(calendarNextDate)) =>
            /\ Len(items') = Len(items)
            /\ \A i \in 1..Len(items) :
                items[i].id = op'.id =>
                    items'[i].replacementInterval
                        = DaysBetween(calendarLastDate, calendarNextDate)
      ]_vars

\* C19: in the App, where items come from Add and are changed by Replace-now
\* and the date editor only, the lastReplaced of every item is at or before
\* the current time.
C19_LastReplacedNotAfterNow ==
    variant = "app" =>
        \A i \in 1..Len(items) : ParseDate(items[i].lastReplaced) <= now

\* C20: an unparseable value in a field of the date editor causes no failure.
\* The edit that delivers it returns normally and leaves the other pending
\* field and the collection as they were; a save with an unparseable pending
\* last date returns normally too and leaves every lastReplaced a valid date.
C20_UnparseableNoCrash ==
    [][ /\ (Ran("handleCalendarLastChange") /\ ~ValidDate(calendarLastDate')) =>
            /\ ~op'.threw
            /\ calendarNextDate' = calendarNextDate
            /\ items' = items
        /\ (Ran("handleCalendarNextChange") /\ ~ValidDate(calendarNextDate')) =>
            /\ ~op'.threw
            /\ calendarLastDate' = calendarLastDate
            /\ items' = items
        /\ (Ran("handleCalendarSave") /\ ~ValidDate(calendarLastDate)) =>
            /\ ~op'.threw
            /\ \A i \in 1..Len(items') : ValidDate(items'[i].lastReplaced)
      ]_vars

----------------------------------------------------------------------------
(* C21 - C30 *)

\* the whole days in x ticks: the integer q with q days <= x < q + 1 days
WholeDays(x) ==
    CHOOSE q \in (0 - (x * x + 1))..(x * x + 1) :
        q * TicksPerDay <= x /\ x < (q + 1) * TicksPerDay

\* C21: for every lastReplaced, interval and clock reading, calculateDaysLeft
\* is the interval minus the whole days elapsed since lastReplaced, the floor
\* of (now - lastReplaced) / 1 day; it is negative exactly when more whole
\* days than the interval have elapsed.
C21_DaysLeftFloor ==
    \A i \in 1..Len(items) :
        LET elapsed == WholeDays(now - ParseDate(items[i].lastReplaced))
            left == calculateDaysLeft(items[i].lastReplaced,
                                      items[i].replacementInterval)
        IN  /\ left = items[i].replacementInterval - elapsed
            /\ (left < 0) <=> (elapsed > items[i].replacementInterval)

\* a rendered collection with an overdue item and an item replaced a part of
\* a day before the clock reading, which has its whole interval left
C21_Witness ==
    /\ op.name = "render"
    /\ \E i \in 1..Len(items) : DaysLeftOf(items[i]) < 0
    /\ \E i \in 1..Len(items) :
        /\ ParseDate(items[i].lastReplaced) < now
        /\ (now - ParseDate(items[i].lastReplaced)) < TicksPerDay
        /\ DaysLeftOf(items[i]) = items[i].replacementInterval

EmptyCollectionStep ==
    (variant = "app" /\ items = <<>> /\ events' = events + 1) =>
        /\ ~op'.threw
        /\ sortedItems = <<>>
        /\ IF Ran("handleAdd") /\ ~IsBlank(name)
           THEN Len(items') = 1
           ELSE items' = <<>>

C25_FilterSemantics ==
    /\ [](IsFilter =>
            LET shown == filterSortedItems
            IN  /\ \A k \in 1..Len(shown) : Occurrences(items, shown[k]) > 0
                /\ \A i \in 1..Len(items) :
                    Occurrences(shown, items[i]) =
                        IF filterCategory = "All"
                                \/ items[i].category = filterCategory
                        THEN Occurrences(items, items[i])
                        ELSE 0)
    /\ [][(Ran("setFilterCategory") \/ Ran("setSortBy")) => items' = items]_vars

\* the filter was set to "Personal": two of the five items are displayed
C25_Witness ==
    /\ IsFilter
    /\ op.name = "setFilterCategory"
    /\ filterCategory = "Personal"
    /\ Len(items) = 5
    /\ Len(filterSortedItems) = 2
    /\ \A k \in 1..2 : filterSortedItems[k].category = "Personal"

\* C26: a rename is committed through the Save button: a press of the Save
\* button while the edited name is not blank leaves the items with the id
\* being renamed with the edited name.
C26_SaveButtonCommits ==
    [][ (Ran("pressSaveButton") /\ ~IsBlank(editName)) =>
            /\ Len(items') = Len(items)
            /\ \A i \in 1..Len(items) :
                items[i].id = op'.id => items'[i].name = editName ]_vars

\* s without its k-th element
WithoutIndex(s, k) == SubSeq(s, 1, k - 1) \o SubSeq(s, k + 1, Len(s))

\* C27: a Delete of an item of the collection (confirmed in the modal in the
\* App, immediate in the filter variant) removes that one item: the
\* collection is one item shorter and every other item stays, unchanged and
\* in place.
C27_DeleteRemovesOne ==
    [][ ((Ran("handleDelete") \/ Ran("filterHandleDelete")) /\ op'.known) =>
            /\ Len(items') = Len(items) - 1
            /\ \E k \in 1..Len(items) :
                items[k].id = op'.id /\ items' = WithoutIndex(items, k) ]_vars

\* C28: an open date-edit context refers to an item of the collection:
\* whenever calendarId is not null, an item has that id.
C28_CalendarIdExists ==
    calendarId # null => HasItem(items, calendarId)

\* C29: opening the date editor for an item and saving with neither field
\* edited leaves every item's daysLeft, at the clock reading of the save, as
\* it was before the save.
C29_OpenSaveNoOp ==
    [][ ( /\ Ran("handleCalendarSave")
          /\ op.name = "handleCalendarClick"
          /\ op.id = op'.id ) =>
            /\ Len(items') = Len(items)
            /\ \A i \in 1..Len(items) :
                calculateDaysLeft(items'[i].lastReplaced,
                                  items'[i].replacementInterval)
                    = DaysLeftOf(items[i]) ]_vars

\* C30: the two computations of daysLeft agree: for every item, every clock
\* reading and every zone the browser runs in, interval - floor((now - last)
\* / day), of the App, equals ceil((last + interval days - now) / day), of
\* the filter variant.
C30_DaysLeftAgree ==
    \A i \in 1..Len(items) : \A c \in ClockChanges :
        calculateDaysLeft(items[i].lastReplaced, items[i].replacementInterval)
            = filterCalculateDaysLeftIn(c, items[i].lastReplaced,
                                        items[i].replacementInterval)

====
